---------------------------- MODULE Spec2Model ----------------------------
(***************************************************************************)
(* A model of dos-go: the bounded dispatch loop of main.go (dispatcher,    *)
(* senders, aggregation tasks and the final report), the proxy rotator     *)
(* and the proxy validator.                                                *)
(*                                                                         *)
(* The specifications share the variables:                                 *)
(*   Spec      the run of main(): dispatcher loop, sendRequest,            *)
(*             processResponse, wg.Wait and the final report;              *)
(*   FairSpec  Spec with the fairness of Go's scheduler;                   *)
(*   SteadySpec FairSpec for the runs without a deadline;                  *)
(*   DeadlineSpec FairSpec for the runs with a deadline;                   *)
(*   StartSpec main() from the parsed flags on: proxy validation, the      *)
(*             configuration checks, then the run;                         *)
(*   RotSpec   concurrent callers of ProxyRotator.Next;                    *)
(*   ValSpec   one call of ValidateProxies.                                *)
(***************************************************************************)
EXTENDS Integers, Sequences, FiniteSets, TLC

\* ------------------------------------------------------------------ bounds
\* the values of -max_goroutines explored (the flag must be at least 1)
PoolSizes == {1, 2}
\* admissions the dispatcher starts in one run
MaxRequests == 2
\* goroutines calling ProxyRotator.Next concurrently
MaxCallers == 2
\* calls of Next() started in one behaviour
MaxCalls == 5
\* longest proxy list given to NewProxyRotator
MaxProxies == 3
\* longest proxy list given to ValidateProxies
MaxCandidates == 3

\* width of ProxyRotator.current: a uint32, scaled down so that the
\* wrap-around is within reach
CounterBits == 2

\* the durations a request may take (time.Duration, in abstract units)
Durations == {1, 2}

\* type Result struct {status; err; duration}: err is "err != nil"
Result == [err : BOOLEAN, duration : Durations]

NoResult == [err |-> FALSE, duration |-> 0]

\* a float64 quotient, kept as <<dividend, divisor>>; var avgDuration float64
\* starts as 0
ZeroAvg == <<0, 1>>

VARIABLES
    \* ---- configuration (flags)
    maxGoroutines,      \* *maxGoroutines
    executionTime,      \* *executionTime != 0
    limiter,            \* limiter != nil
    \* ---- main()
    sem,                \* number of tokens in the sem channel
    respChan,           \* buffered result channel: a sequence of Result
    ctxDone,            \* ctx.Done() is closed
    executionTimer,     \* "armed", "fired" (a value waits in .C), "drained"
    wg,                 \* sync.WaitGroup: [counter, waiters, sema]
    errCount, sentRequestCount, totalDuration,
    mpc,                \* main goroutine: position
    report,             \* the values main read for the final report
    crashed,            \* a goroutine panicked: the process is gone
    \* ---- dispatcher goroutine
    dpc,                \* position in the loop
    res,                \* the Result received from respChan
    permit,             \* outcome of the last limiter.Wait: "none", "ok", "err"
    \* ---- sendRequest goroutines, by position
    senders,
    \* ---- processResponse goroutines, by position
    aggs,
    \* ---- history of the run
    hist,
    \* ---- proxy.ProxyRotator and the goroutines calling Next()
    rotator,            \* [proxies, current]
    callers,            \* per caller: position, n, returned value
    rotHist,            \* increments performed so far, calls started
    \* ---- proxy.ValidateProxies
    validate,           \* the call's locals and position
    probes,             \* the probe goroutines, by index into proxies
    \* ---- main(), before the dispatch loop
    start               \* position, the flags' verdicts and the client built

runVars == <<maxGoroutines, executionTime, limiter, sem, respChan, ctxDone,
             executionTimer, wg, errCount, sentRequestCount, totalDuration,
             mpc, report, crashed, dpc, res, permit, senders, aggs, hist>>

rotVars == <<rotator, callers, rotHist>>

valVars == <<validate, probes>>

vars == <<runVars, rotVars, valVars, start>>

\* what a step of the run leaves alone
others == <<rotVars, valVars, start>>

\* ------------------------------------------------------------ helpers
Zero(S) == [x \in S |-> 0]

Inc(f, k) == [f EXCEPT ![k] = @ + 1]

Dec(f, k) == [f EXCEPT ![k] = @ - 1]

RECURSIVE SumOver(_, _)
SumOver(f, S) ==
    IF S = {} THEN 0
    ELSE LET x == CHOOSE y \in S : TRUE
         IN f[x] + SumOver(f, S \ {x})

Total(f) == SumOver(f, DOMAIN f)

\* sendRequest goroutines that were spawned and have not exited
InFlight == senders.request + senders.release

\* processResponse goroutines that were spawned and have not exited
AggsRunning ==
    Total(aggs.err) + Total(aggs.sent) + Total(aggs.dur) + aggs.done
    + aggs.notify

\* main() has reached the dispatch loop with the direct client
StartedDirect ==
    [pc |-> "loop", proxyList |-> FALSE, readable |-> TRUE, fatal |-> FALSE,
     client |-> "direct"]

\* main() is not running
StartIdle ==
    [pc |-> "idle", proxyList |-> FALSE, readable |-> TRUE, fatal |-> FALSE,
     client |-> "none"]

\* the run is modelled with the direct client and with the client of an empty
\* rotator; the rotation over a non-empty list is modelled on its own
ClientModelled ==
    IF start.client = "direct" THEN TRUE ELSE Len(rotator.proxies) = 0

\* the dispatch loop has started, and the process lives until main returns
\* or a goroutine panics
Running ==
    /\ start.pc = "loop"
    /\ ClientModelled
    /\ mpc # "exited"
    /\ ~crashed

\* atomic.AddInt64(p, delta): the new value
AddIgnoringDelta(v, delta) == v + 1

AtomicAddInt64(v, delta) == v + delta


\* ------------------------------------------------------- sync.WaitGroup
\* wg.Add(1): the counter after the call
WgAdd(w) == [w EXCEPT !.counter = @ + 1]

\* wg.Add panics ("Add called concurrently with Wait") when it raises the
\* counter from zero while a waiter is registered
WgAddMisuse(w) == w.waiters # 0 /\ w.counter = 0

\* ------------------------------------------------------------------ Init
\* the rotator and the validator, not in use
RotIdle ==
    /\ rotator = [proxies |-> <<>>, current |-> 0]
    /\ callers = <<>>
    /\ rotHist = [incs |-> 0, calls |-> 0]

ValIdle ==
    /\ validate = [pc |-> "idle"]
    /\ probes = <<>>

RunInit ==
    /\ maxGoroutines \in PoolSizes
    /\ executionTime \in BOOLEAN
    /\ limiter \in BOOLEAN
    /\ sem = 0
    /\ respChan = <<>>
    /\ ctxDone = FALSE
    /\ executionTimer = "armed"
    /\ wg = [counter |-> 0, waiters |-> 0, sema |-> 0]
    /\ errCount = 0
    /\ sentRequestCount = 0
    /\ totalDuration = 0
    /\ mpc = "waitCtx"
    /\ report = [emitted |-> 0, sent |-> 0, errors |-> 0, avg |-> ZeroAvg]
    /\ crashed = FALSE
    /\ dpc = "select"
    /\ res = NoResult
    /\ permit = "none"
    /\ senders = [request |-> 0, release |-> 0]
    /\ aggs = [err |-> Zero(Durations), sent |-> Zero(Durations),
               dur |-> Zero(Durations), done |-> 0, notify |-> 0]
    /\ hist = [spawned |-> 0, delivered |-> 0, handed |-> 0,
               handedErr |-> 0, handedDur |-> 0]

Init == RunInit /\ RotIdle /\ ValIdle /\ start = StartedDirect

config == <<maxGoroutines, executionTime, limiter>>

counters == <<errCount, sentRequestCount, totalDuration>>

mainVars == <<mpc, report>>

\* ------------------------------------------------------- the environment
\* os.Interrupt reaches signal.NotifyContext: ctx is cancelled
Interrupt ==
    /\ Running
    /\ ~ctxDone
    /\ ctxDone' = TRUE
    /\ UNCHANGED others
    /\ UNCHANGED <<config, sem, respChan, executionTimer, wg, counters,
                   mainVars, crashed, dpc, res, permit, senders, aggs, hist>>

\* time.NewTimer(*executionTime) fires: a value is placed in executionTimer.C
TimerFire ==
    /\ Running
    /\ executionTimer = "armed"
    /\ executionTimer' = "fired"
    /\ UNCHANGED others
    /\ UNCHANGED <<config, sem, respChan, ctxDone, wg, counters,
                   mainVars, crashed, dpc, res, permit, senders, aggs, hist>>

\* ------------------------------------------------- the dispatcher goroutine
\* a communication case of the outer select can proceed
SelectReady == respChan # <<>> \/ executionTimer = "fired" \/ ctxDone

\* outer select, default: taken only when no other case is ready (so ctx is
\* not cancelled and limiter.Wait, when there is a limiter, starts to wait)
SelectDefault ==
    /\ Running
    /\ dpc = "select"
    /\ ~SelectReady
    /\ hist.spawned < MaxRequests
    /\ dpc' = IF limiter THEN "limiterWait" ELSE "admit"
    /\ permit' = "none"
    /\ UNCHANGED others
    /\ UNCHANGED <<config, sem, respChan, ctxDone, executionTimer, wg,
                   counters, mainVars, crashed, res, senders, aggs, hist>>

\* limiter.Wait(ctx): the token becomes available
LimiterGrant ==
    /\ Running
    /\ dpc = "limiterWait"
    /\ dpc' = "admit"
    /\ permit' = "ok"
    /\ UNCHANGED others
    /\ UNCHANGED <<config, sem, respChan, ctxDone, executionTimer, wg,
                   counters, mainVars, crashed, res, senders, aggs, hist>>

\* limiter.Wait(ctx): ctx is cancelled, Wait returns the error (which the
\* dispatcher only logs)
LimiterCancel ==
    /\ Running
    /\ dpc = "limiterWait"
    /\ ctxDone
    /\ dpc' = "admit"
    /\ permit' = "err"
    /\ UNCHANGED others
    /\ UNCHANGED <<config, sem, respChan, ctxDone, executionTimer, wg,
                   counters, mainVars, crashed, res, senders, aggs, hist>>

\* a send on sem = make(chan struct{}, *maxGoroutines) can proceed
SemUnbounded == TRUE

SemHasRoom == sem < maxGoroutines

\* inner select, case sem <- struct{}{}: go sendRequest(...)
AdmitAcquire ==
    /\ Running
    /\ dpc = "admit"
    /\ SemHasRoom
    /\ sem' = sem + 1
    /\ senders' = [senders EXCEPT !.request = @ + 1]
    /\ hist' = [hist EXCEPT !.spawned = @ + 1]
    /\ dpc' = "select"
    /\ permit' = "none"
    /\ UNCHANGED others
    /\ UNCHANGED <<config, respChan, ctxDone, executionTimer, wg, counters,
                   mainVars, crashed, res, aggs>>

\* inner select, case <-ctx.Done(): return
AdmitCancelled ==
    /\ Running
    /\ dpc = "admit"
    /\ ctxDone
    /\ dpc' = "returned"
    /\ permit' = "none"
    /\ UNCHANGED others
    /\ UNCHANGED <<config, sem, respChan, ctxDone, executionTimer, wg,
                   counters, mainVars, crashed, res, senders, aggs, hist>>

\* outer select, case res := <-respChan
SelectRecv ==
    /\ Running
    /\ dpc = "select"
    /\ respChan # <<>>
    /\ res' = Head(respChan)
    /\ respChan' = Tail(respChan)
    /\ dpc' = "gotRes"
    /\ UNCHANGED others
    /\ UNCHANGED <<config, sem, ctxDone, executionTimer, wg, counters,
                   mainVars, crashed, permit, senders, aggs, hist>>

\* go processResponse(r, ...): the new goroutine stands before its first
\* atomic update, which "if res.err != nil" selects
Spawned(a, r) ==
    IF r.err THEN [a EXCEPT !.err = Inc(@, r.duration)]
             ELSE [a EXCEPT !.sent = Inc(@, r.duration)]

\* wg.Add(1); go processResponse(res, ...)
SpawnAggregation ==
    /\ Running
    /\ dpc = "gotRes"
    /\ wg' = WgAdd(wg)
    /\ IF WgAddMisuse(wg)
       THEN crashed' = TRUE /\ UNCHANGED <<aggs, hist>>
       ELSE /\ crashed' = FALSE
            /\ aggs' = Spawned(aggs, res)
            /\ hist' = [hist EXCEPT
                          !.handed = @ + 1,
                          !.handedErr = @ + (IF res.err THEN 1 ELSE 0),
                          !.handedDur = @ + res.duration]
    /\ res' = NoResult
    /\ dpc' = "select"
    /\ UNCHANGED others
    /\ UNCHANGED <<config, sem, respChan, ctxDone, executionTimer, counters,
                   mainVars, permit, senders>>

\* if *executionTime != 0
TimerCancelsInverted == ~executionTime

TimerCancelsAlways == TRUE

TimerCancels == executionTime

\* outer select, case <-executionTimer.C: cancel() when exec_time is set
SelectTimer ==
    /\ Running
    /\ dpc = "select"
    /\ executionTimer = "fired"
    /\ executionTimer' = "drained"
    /\ ctxDone' = (ctxDone \/ TimerCancels)
    /\ UNCHANGED others
    /\ UNCHANGED <<config, sem, respChan, wg, counters, mainVars, crashed,
                   dpc, res, permit, senders, aggs, hist>>

\* outer select, case <-ctx.Done(): return
SelectDone ==
    /\ Running
    /\ dpc = "select"
    /\ ctxDone
    /\ dpc' = "returned"
    /\ UNCHANGED others
    /\ UNCHANGED <<config, sem, respChan, ctxDone, executionTimer, wg,
                   counters, mainVars, crashed, res, permit, senders, aggs,
                   hist>>

\* ---------------------------------------------------- sendRequest goroutines
\* ProxyRotator.Next() on an empty list: return ""
NextOnEmpty == <<>>

\* the Dial hook of GetClient's client: proxy := p.Next(); an empty proxy is
\* an error, otherwise the connection is tunnelled through the proxy
DialFallsBack(proxy) == IF proxy = <<>> THEN "direct" ELSE "socks5"

Dial(proxy) == IF proxy = <<>> THEN "error" ELSE "socks5"

\* client.DoTimeout(req, resp, requestTimeout) can end with the Result r: a
\* client that cannot dial has no connection and returns the dial's error
ClientYields(r) ==
    IF start.client = "direct" THEN TRUE
    ELSE IF Dial(NextOnEmpty) = "error" THEN r.err
    ELSE TRUE

\* respChan := make(chan *Result, *maxGoroutines): the capacity
RespChanOneShort == maxGoroutines - 1

RespChanCap == maxGoroutines

\* a send on respChan can proceed
RespChanHasRoom == Len(respChan) < RespChanCap

\* case <-sem: the number of tokens left in sem
NotReleased(s) == s

Released(s) == s - 1

\* the deferred select's case <-ctx.Done() can proceed
ReleaseAbandonedAlways == TRUE

ReleaseAbandoned == ctxDone

\* client.DoTimeout has returned (it is bounded by requestTimeout) with the
\* Result r; select, case respChan <- res
SendDeliver(r) ==
    /\ Running
    /\ senders.request > 0
    /\ ClientYields(r)
    /\ RespChanHasRoom
    /\ respChan' = Append(respChan, r)
    /\ senders' = [senders EXCEPT !.request = @ - 1, !.release = @ + 1]
    /\ hist' = [hist EXCEPT !.delivered = @ + 1]
    /\ UNCHANGED others
    /\ UNCHANGED <<config, sem, ctxDone, executionTimer, wg, counters,
                   mainVars, crashed, dpc, res, permit, aggs>>

\* select, case <-ctx.Done(): the result is dropped
SendAbandon ==
    /\ Running
    /\ senders.request > 0
    /\ ctxDone
    /\ senders' = [senders EXCEPT !.request = @ - 1, !.release = @ + 1]
    /\ UNCHANGED others
    /\ UNCHANGED <<config, sem, respChan, ctxDone, executionTimer, wg,
                   counters, mainVars, crashed, dpc, res, permit, aggs, hist>>

\* deferred select, case <-sem: the slot is released, the goroutine exits
SendRelease ==
    /\ Running
    /\ senders.release > 0
    /\ sem > 0
    /\ sem' = Released(sem)
    /\ senders' = [senders EXCEPT !.release = @ - 1]
    /\ UNCHANGED others
    /\ UNCHANGED <<config, respChan, ctxDone, executionTimer, wg, counters,
                   mainVars, crashed, dpc, res, permit, aggs, hist>>

\* deferred select, case <-ctx.Done(): return without releasing
SendExit ==
    /\ Running
    /\ senders.release > 0
    /\ ReleaseAbandoned
    /\ senders' = [senders EXCEPT !.release = @ - 1]
    /\ UNCHANGED others
    /\ UNCHANGED <<config, sem, respChan, ctxDone, executionTimer, wg,
                   counters, mainVars, crashed, dpc, res, permit, aggs, hist>>

\* ------------------------------------------------ processResponse goroutines
\* if res.err != nil { atomic.AddInt64(errCount, 1) }
ProcErr(d) ==
    /\ Running
    /\ aggs.err[d] > 0
    /\ errCount' = AtomicAddInt64(errCount, 1)
    /\ aggs' = [aggs EXCEPT !.err = Dec(@, d), !.sent = Inc(@, d)]
    /\ UNCHANGED others
    /\ UNCHANGED <<config, sem, respChan, ctxDone, executionTimer, wg,
                   sentRequestCount, totalDuration, mainVars, crashed, dpc,
                   res, permit, senders, hist>>

\* atomic.AddInt64(sentRequestsCount, 1)
ProcSent(d) ==
    /\ Running
    /\ aggs.sent[d] > 0
    /\ sentRequestCount' = AtomicAddInt64(sentRequestCount, 1)
    /\ aggs' = [aggs EXCEPT !.sent = Dec(@, d), !.dur = Inc(@, d)]
    /\ UNCHANGED others
    /\ UNCHANGED <<config, sem, respChan, ctxDone, executionTimer, wg,
                   errCount, totalDuration, mainVars, crashed, dpc, res,
                   permit, senders, hist>>

\* atomic.AddInt64(totalDuration, int64(res.duration))
ProcDur(d) ==
    /\ Running
    /\ aggs.dur[d] > 0
    /\ totalDuration' = AtomicAddInt64(totalDuration, d)
    /\ aggs' = [aggs EXCEPT !.dur = Dec(@, d), !.done = @ + 1]
    /\ UNCHANGED others
    /\ UNCHANGED <<config, sem, respChan, ctxDone, executionTimer, wg,
                   errCount, sentRequestCount, mainVars, crashed, dpc, res,
                   permit, senders, hist>>

\* defer wg.Done(): the counter is decremented; the goroutine that brings it
\* to zero with a waiter registered goes on to wake the waiter
ProcDone ==
    /\ Running
    /\ aggs.done > 0
    /\ wg' = [wg EXCEPT !.counter = @ - 1]
    /\ aggs' = IF wg.counter = 1 /\ wg.waiters > 0
               THEN [aggs EXCEPT !.done = @ - 1, !.notify = @ + 1]
               ELSE [aggs EXCEPT !.done = @ - 1]
    /\ UNCHANGED others
    /\ UNCHANGED <<config, sem, respChan, ctxDone, executionTimer, counters,
                   mainVars, crashed, dpc, res, permit, senders, hist>>

\* wg.Done(), waking: panics when the state changed under it (an Add raced
\* with the Wait); otherwise resets the waiters and releases the semaphore
ProcNotify ==
    /\ Running
    /\ aggs.notify > 0
    /\ aggs' = [aggs EXCEPT !.notify = @ - 1]
    /\ IF wg.counter # 0
       THEN crashed' = TRUE /\ wg' = wg
       ELSE crashed' = FALSE
            /\ wg' = [wg EXCEPT !.waiters = 0, !.sema = @ + wg.waiters]
    /\ UNCHANGED others
    /\ UNCHANGED <<config, sem, respChan, ctxDone, executionTimer, counters,
                   mainVars, dpc, res, permit, senders, hist>>

\* ------------------------------------------------------- the main goroutine
\* float64(totalDuration) / float64(sentRequestCount)
Quotient(total, sent) == <<total, sent>>

\* var avgDuration float64; if sentRequestCount > 0 { avgDuration = ... }:
\* the report with the average main computes when wg.Wait() has returned
Averaged ==
    [report EXCEPT !.avg =
                     IF sentRequestCount > 0
                     THEN Quotient(totalDuration, sentRequestCount)
                     ELSE ZeroAvg]

\* <-ctx.Done(); wg.Wait(): once ctx is cancelled (it stays cancelled), Wait
\* returns at once on a zero counter, and main goes on to compute the
\* average; else Wait registers main as a waiter
MainWgWait ==
    /\ Running
    /\ mpc = "waitCtx"
    /\ ctxDone
    /\ IF wg.counter = 0
       THEN mpc' = "logStats" /\ wg' = wg /\ report' = Averaged
       ELSE mpc' = "wgBlocked" /\ wg' = [wg EXCEPT !.waiters = @ + 1]
                               /\ report' = report
    /\ UNCHANGED others
    /\ UNCHANGED <<config, sem, respChan, ctxDone, executionTimer, counters,
                   crashed, dpc, res, permit, senders, aggs, hist>>

\* wg.Wait(), woken: panics ("WaitGroup is reused before previous Wait has
\* returned") when the state is no longer zero
MainWgWake ==
    /\ Running
    /\ mpc = "wgBlocked"
    /\ wg.sema > 0
    /\ wg' = [wg EXCEPT !.sema = @ - 1]
    /\ IF wg.counter # 0
       THEN crashed' = TRUE /\ mpc' = mpc /\ report' = report
       ELSE crashed' = FALSE /\ mpc' = "logStats" /\ report' = Averaged
    /\ UNCHANGED others
    /\ UNCHANGED <<config, sem, respChan, ctxDone, executionTimer, counters,
                   dpc, res, permit, senders, aggs, hist>>

\* log.Info()...Int64("sent_requests", sentRequestCount).Int64("errors",
\* errCount).Float64("average_request_duration", avgDuration)...Msg(...): the
\* counters are read again, the final report is logged and main returns
MainReport ==
    /\ Running
    /\ mpc = "logStats"
    /\ report' = [report EXCEPT !.emitted = @ + 1,
                                !.sent = sentRequestCount,
                                !.errors = errCount]
    /\ mpc' = "exited"
    /\ UNCHANGED others
    /\ UNCHANGED <<config, sem, respChan, ctxDone, executionTimer, wg,
                   counters, crashed, dpc, res, permit, senders, aggs, hist>>

\* --------------------------------------------------------- specification
Dispatcher ==
    \/ SelectDefault
    \/ LimiterGrant
    \/ LimiterCancel
    \/ AdmitAcquire
    \/ AdmitCancelled
    \/ SelectRecv
    \/ SpawnAggregation
    \/ SelectTimer
    \/ SelectDone

Sender ==
    \/ \E r \in Result : SendDeliver(r)
    \/ SendAbandon
    \/ SendRelease
    \/ SendExit

Aggregator ==
    \/ \E d \in Durations : ProcErr(d)
    \/ \E d \in Durations : ProcSent(d)
    \/ \E d \in Durations : ProcDur(d)
    \/ ProcDone
    \/ ProcNotify

Main ==
    \/ MainWgWait
    \/ MainWgWake
    \/ MainReport

Next ==
    \/ Interrupt
    \/ TimerFire
    \/ Dispatcher
    \/ Sender
    \/ Aggregator
    \/ Main

Spec == Init /\ [][Next]_vars

\* Go's scheduler runs every runnable goroutine eventually; the interrupt and
\* the timer are the environment's and get no fairness
Fairness ==
    /\ WF_vars(Dispatcher)
    /\ WF_vars(Sender)
    /\ WF_vars(Aggregator)
    /\ WF_vars(Main)

FairSpec == Spec /\ Fairness

\* a run without -exec_time (the default): it lasts until it is interrupted
SteadyInit == Init /\ ~executionTime

SteadySpec == SteadyInit /\ [][Next]_vars /\ Fairness

\* a run with -exec_time set: it lasts until the deadline or the interrupt
DeadlineInit == Init /\ executionTime

DeadlineSpec == DeadlineInit /\ [][Next]_vars /\ Fairness

\* ============================================================ ProxyRotator
CounterMod == 2 ^ CounterBits

\* a proxy address "host:port", by number; "" is the empty string
Proxy(i) == <<"proxy", i>>

EmptyString == <<>>

\* the value of a call that panicked (index out of range)
Panic == <<"panic">>

\* Go's %: the remainder of the division truncated toward zero
GoRem(a, b) == IF a >= 0 THEN a % b ELSE -((-a) % b)

\* atomic.AddUint32(&p.current, 1): the new value
AddUint32(v) == (v + 1) % CounterMod

\* (int(n)-1) % len(p.proxies), with int wider than the counter
IndexOf(n, len) == GoRem(n - 1, len)

ProxyAt(list, idx) ==
    IF idx < 0 \/ idx >= Len(list) THEN Panic ELSE list[idx + 1]

Callers == 1..MaxCallers

IdleCaller == [pc |-> "idle", n |-> 0, ticket |-> 0, ret |-> EmptyString]

\* NewProxyRotator(proxies) for a list of N proxies
RotInit ==
    /\ \E N \in 0..MaxProxies :
          rotator = [proxies |-> [i \in 1..N |-> Proxy(i)], current |-> 0]
    /\ callers = [c \in Callers |-> IdleCaller]
    /\ rotHist = [incs |-> 0, calls |-> 0]

RotPanicked == \E c \in Callers : callers[c].pc = "panicked"

\* a goroutine calls Next(): with an empty list it returns "" at once
NextCall(c) ==
    /\ ~RotPanicked
    /\ callers[c].pc \in {"idle", "returned"}
    /\ rotHist.calls < MaxCalls
    /\ rotHist' = [rotHist EXCEPT !.calls = @ + 1]
    /\ callers' = [callers EXCEPT ![c] =
          IF Len(rotator.proxies) = 0
          THEN [IdleCaller EXCEPT !.pc = "returned"]
          ELSE [IdleCaller EXCEPT !.pc = "add"]]
    /\ UNCHANGED <<rotator, runVars, start, valVars>>

\* n := atomic.AddUint32(&p.current, 1)
NextAdd(c) ==
    /\ ~RotPanicked
    /\ callers[c].pc = "add"
    /\ rotator' = [rotator EXCEPT !.current = AddUint32(@)]
    /\ rotHist' = [rotHist EXCEPT !.incs = @ + 1]
    /\ callers' = [callers EXCEPT ![c].pc = "index",
                                  ![c].n = AddUint32(rotator.current),
                                  ![c].ticket = rotHist.incs + 1]
    /\ UNCHANGED <<runVars, start, valVars>>

\* return p.proxies[(int(n)-1)%len(p.proxies)]
NextIndex(c) ==
    /\ ~RotPanicked
    /\ callers[c].pc = "index"
    /\ LET v == ProxyAt(rotator.proxies,
                        IndexOf(callers[c].n, Len(rotator.proxies)))
       IN callers' = [callers EXCEPT
                        ![c].pc = IF v = Panic THEN "panicked" ELSE "returned",
                        ![c].ret = v]
    /\ UNCHANGED <<rotator, rotHist, runVars, start, valVars>>

RunIdle ==
    /\ maxGoroutines = 1 /\ executionTime = FALSE /\ limiter = FALSE
    /\ sem = 0 /\ respChan = <<>> /\ ctxDone = FALSE
    /\ executionTimer = "armed"
    /\ wg = [counter |-> 0, waiters |-> 0, sema |-> 0]
    /\ errCount = 0 /\ sentRequestCount = 0 /\ totalDuration = 0
    /\ mpc = "exited"
    /\ report = [emitted |-> 0, sent |-> 0, errors |-> 0, avg |-> ZeroAvg]
    /\ crashed = FALSE /\ dpc = "returned" /\ res = NoResult
    /\ permit = "none"
    /\ senders = [request |-> 0, release |-> 0]
    /\ aggs = [err |-> Zero(Durations), sent |-> Zero(Durations),
               dur |-> Zero(Durations), done |-> 0, notify |-> 0]
    /\ hist = [spawned |-> 0, delivered |-> 0, handed |-> 0,
               handedErr |-> 0, handedDur |-> 0]

RotNext ==
    \/ \E c \in Callers : NextCall(c)
    \/ \E c \in Callers : NextAdd(c)
    \/ \E c \in Callers : NextIndex(c)

RotSpecInit == RotInit /\ RunIdle /\ ValIdle /\ start = StartIdle

RotSpec == RotSpecInit /\ [][RotNext]_vars

\* ========================================================= ValidateProxies
\* the addresses the candidate lists are made of (a list may repeat one)
CandidatePool == {Proxy(1), Proxy(2)}

RECURSIVE SeqsUpTo(_, _)
SeqsUpTo(S, n) ==
    IF n = 0 THEN {<<>>}
    ELSE LET shorter == SeqsUpTo(S, n - 1)
         IN shorter \cup {Append(q, x) : q \in shorter, x \in S}

UnbornProbe == [pc |-> "unborn", ok |-> FALSE]

\* the locals of a call ValidateProxies(list)
ValCall(list) ==
    [pc |-> "start", proxies |-> list, i |-> 0, wg |-> 0,
     validProxies |-> <<>>, invalidProxies |-> <<>>, closed |-> FALSE,
     validProxiesSl |-> <<>>, invalidProxiesSl |-> <<>>, panicked |-> FALSE]

\* ValidateProxies(proxies) is called
ValInit ==
    /\ \E list \in SeqsUpTo(CandidatePool, MaxCandidates) :
          /\ validate = ValCall(list)
          /\ probes = [k \in 1..Len(list) |-> UnbornProbe]

ValRunning == validate.pc # "idle" /\ ~validate.panicked

\* wg.Wait() returns
WaitReturnsAlways(counter) == TRUE

WaitReturns(counter) == counter = 0

\* make(chan string, len(proxies)) twice; wg.Add(len(proxies))
ValStart ==
    /\ ValRunning
    /\ validate.pc = "start"
    /\ validate' = [validate EXCEPT !.pc = "spawn",
                                    !.wg = Len(validate.proxies)]
    /\ UNCHANGED <<probes, runVars, start, rotVars>>

\* for _, proxy := range proxies { go func(proxy, timeout) {...} }
ValSpawn ==
    /\ ValRunning
    /\ validate.pc = "spawn"
    /\ validate.i < Len(validate.proxies)
    /\ validate' = [validate EXCEPT !.i = @ + 1]
    /\ probes' = [probes EXCEPT ![validate.i + 1].pc = "probe"]
    /\ UNCHANGED <<runVars, start, rotVars>>

\* testProxy(proxy, timeout): net.DialTimeout succeeds or fails
ValProbe(k, ok) ==
    /\ ValRunning
    /\ probes[k].pc = "probe"
    /\ probes' = [probes EXCEPT ![k] = [pc |-> "send", ok |-> ok]]
    /\ UNCHANGED <<validate, runVars, start, rotVars>>

\* validProxies <- proxy, or invalidProxies <- proxy; a send on a closed
\* channel panics
ValSend(k) ==
    /\ ValRunning
    /\ probes[k].pc = "send"
    /\ IF validate.closed
       THEN /\ validate' = [validate EXCEPT !.panicked = TRUE]
            /\ probes' = probes
       ELSE /\ IF probes[k].ok
               THEN /\ Len(validate.validProxies) < Len(validate.proxies)
                    /\ validate' = [validate EXCEPT !.validProxies =
                                      Append(@, validate.proxies[k])]
               ELSE /\ Len(validate.invalidProxies) < Len(validate.proxies)
                    /\ validate' = [validate EXCEPT !.invalidProxies =
                                      Append(@, validate.proxies[k])]
            /\ probes' = [probes EXCEPT ![k].pc = "done"]
    /\ UNCHANGED <<runVars, start, rotVars>>

\* defer wg.Done()
ValDone(k) ==
    /\ ValRunning
    /\ probes[k].pc = "done"
    /\ probes' = [probes EXCEPT ![k].pc = "exited"]
    /\ validate' = [validate EXCEPT !.wg = @ - 1]
    /\ UNCHANGED <<runVars, start, rotVars>>

\* wg.Wait() returns; close(validProxies); close(invalidProxies)
ValWait ==
    /\ ValRunning
    /\ validate.pc = "spawn"
    /\ validate.i = Len(validate.proxies)
    /\ WaitReturns(validate.wg)
    /\ validate' = [validate EXCEPT !.pc = "rangeValid", !.closed = TRUE]
    /\ UNCHANGED <<probes, runVars, start, rotVars>>

\* for proxy := range validProxies { append }: the loop ends when the closed
\* channel is empty
ValRangeValid ==
    /\ ValRunning
    /\ validate.pc = "rangeValid"
    /\ validate' =
          IF validate.validProxies # <<>>
          THEN [validate EXCEPT
                  !.validProxies = Tail(@),
                  !.validProxiesSl = Append(@, Head(validate.validProxies))]
          ELSE [validate EXCEPT !.pc = "rangeInvalid"]
    /\ UNCHANGED <<probes, runVars, start, rotVars>>

\* for proxy := range invalidProxies { append }; return
ValRangeInvalid ==
    /\ ValRunning
    /\ validate.pc = "rangeInvalid"
    /\ validate' =
          IF validate.invalidProxies # <<>>
          THEN [validate EXCEPT
                  !.invalidProxies = Tail(@),
                  !.invalidProxiesSl =
                      Append(@, Head(validate.invalidProxies))]
          ELSE [validate EXCEPT !.pc = "returned"]
    /\ UNCHANGED <<probes, runVars, start, rotVars>>

ValNext ==
    \/ ValStart
    \/ ValSpawn
    \/ \E k \in DOMAIN probes, ok \in BOOLEAN : ValProbe(k, ok)
    \/ \E k \in DOMAIN probes : ValSend(k)
    \/ \E k \in DOMAIN probes : ValDone(k)
    \/ ValWait
    \/ ValRangeValid
    \/ ValRangeInvalid

ValSpecInit == ValInit /\ RunIdle /\ RotIdle /\ start = StartIdle

ValSpec == ValSpecInit /\ [][ValNext]_vars

\* ================================================== main(), before the loop
\* the flags are parsed: a proxy list may be given and its file readable, the
\* configuration may have an error that is fatal; the run that follows has
\* one slot, no deadline, and a limiter or none
StartInit ==
    /\ RunInit
    /\ maxGoroutines = 1
    /\ ~executionTime
    /\ RotIdle
    /\ ValIdle
    /\ \E pl \in BOOLEAN, rd \in BOOLEAN, ft \in BOOLEAN :
          start = [pc |-> "flags", proxyList |-> pl, readable |-> rd,
                   fatal |-> ft, client |-> "none"]

\* if *proxyList != "": util.ReadFileEntries, log.Fatal when it fails; then
\* proxy.ValidateProxies(proxies) is called
StartReadProxies ==
    /\ start.pc = "flags"
    /\ start.proxyList
    /\ IF start.readable
       THEN \E list \in SeqsUpTo(CandidatePool, MaxCandidates) :
               /\ validate' = ValCall(list)
               /\ probes' = [k \in 1..Len(list) |-> UnbornProbe]
               /\ start' = [start EXCEPT !.pc = "validating"]
       ELSE /\ start' = [start EXCEPT !.pc = "aborted"]
            /\ UNCHANGED valVars
    /\ UNCHANGED <<runVars, rotVars>>

\* ValidateProxies has returned: client =
\* proxy.NewProxyRotator(validProxies).GetClient()
StartRotator ==
    /\ start.pc = "validating"
    /\ validate.pc = "returned"
    /\ rotator' = [proxies |-> validate.validProxiesSl, current |-> 0]
    /\ validate' = [pc |-> "idle"]
    /\ start' = [start EXCEPT !.pc = "config", !.client = "proxied"]
    /\ UNCHANGED <<runVars, callers, rotHist, probes>>

\* else: client = &fasthttp.Client{}
StartDirect ==
    /\ start.pc = "flags"
    /\ ~start.proxyList
    /\ start' = [start EXCEPT !.pc = "config", !.client = "direct"]
    /\ UNCHANGED <<runVars, rotVars, valVars>>

\* url.Parse and the switch over the flags: log.Fatal on an error; otherwise
\* the channels, the context and the timer are made and the loop is started
StartConfig ==
    /\ start.pc = "config"
    /\ start' = [start EXCEPT !.pc = IF start.fatal THEN "aborted"
                                     ELSE "loop"]
    /\ UNCHANGED <<runVars, rotVars, valVars>>

StartNext ==
    \/ StartReadProxies
    \/ StartRotator
    \/ StartDirect
    \/ StartConfig
    \/ ValNext
    \/ Next

StartSpec == StartInit /\ [][StartNext]_vars

\* ------------------------------------------------------------- the claims
\* C1: at most max_goroutines sendRequest goroutines are spawned and not yet
\* exited, in every reachable state
ConcurrencyBound == InFlight <= maxGoroutines

\* C1 witness: the pool is full of running senders while the dispatcher waits
\* in the admission branch for a free slot
ConcurrencyBoundWitness ==
    /\ InFlight = maxGoroutines
    /\ sem = maxGoroutines
    /\ dpc = "admit"

\* C2: main has passed wg.Wait() and is about to read the counters only when
\* no processResponse task is running and no wg.Add is still to come
JoinBeforeRead ==
    mpc = "logStats" => (AggsRunning = 0 /\ dpc # "gotRes")

\* C3: once ctx is cancelled the dispatcher acquires no slot and spawns no
\* sendRequest
NoAdmissionAfterCancel ==
    [][ctxDone => (sem' <= sem /\ hist'.spawned = hist.spawned)]_vars

\* C4: errors <= sent_requests in every reachable state of the counters
ErrorsLeqSent == errCount <= sentRequestCount

\* C5: once every aggregation task has completed, the counters equal the
\* number of outcomes handed to processResponse, the number of those with an
\* error, and the sum of their durations
CountersExact ==
    AggsRunning = 0 =>
        /\ sentRequestCount = hist.handed
        /\ errCount = hist.handedErr
        /\ totalDuration = hist.handedDur

\* C5 witness: two outcomes, one with an error, of different durations, have
\* been aggregated
CountersExactWitness ==
    /\ AggsRunning = 0
    /\ hist.handed = 2
    /\ hist.handedErr = 1
    /\ hist.handedDur = 3
    /\ sentRequestCount = 2

\* C6: every outcome placed on the result channel is counted in the final
\* report
DeliveredIsReported == mpc = "exited" => report.sent = hist.delivered

\* C9: after cancellation main emits the final report, once
CancelLeadsToReport == ctxDone ~> (mpc = "exited" /\ report.emitted = 1)

\* C10: once the execution timer has fired with exec_time nonzero, the
\* cancellation signal is eventually set
DeadlineLeadsToCancel ==
    (executionTime /\ executionTimer = "fired") ~> ctxDone

\* C10 witness: the timer fires while the dispatcher waits for a free slot
DeadlineWhileWaitingForSlot ==
    /\ executionTime
    /\ executionTimer = "fired"
    /\ ~ctxDone
    /\ dpc = "admit"
    /\ sem = maxGoroutines

\* C7: the call that performs the i-th increment returns list[(i-1) mod N];
\* with N = 0 every call returns the empty string
RoundRobin ==
    \A c \in Callers :
        LET N == Len(rotator.proxies)
        IN /\ (callers[c].pc \in {"returned", "panicked"} /\ N = 0) =>
                 callers[c].ret = EmptyString
           /\ (callers[c].pc \in {"returned", "panicked"} /\ N > 0) =>
                 callers[c].ret =
                    rotator.proxies[((callers[c].ticket - 1) % N) + 1]

\* C7, short of the wrap-around: the calls that perform the increments
\* 1 .. 2^w - 1 return list[(i-1) mod N], whatever the interleaving
RoundRobinBelowWrap ==
    \A c \in Callers :
        LET N == Len(rotator.proxies)
        IN (/\ callers[c].pc \in {"returned", "panicked"}
            /\ N > 0
            /\ callers[c].ticket < CounterMod) =>
               callers[c].ret =
                  rotator.proxies[((callers[c].ticket - 1) % N) + 1]

\* how often x occurs in the sequence q
Count(q, x) == Cardinality({k \in DOMAIN q : q[k] = x})

\* C8: ValidateProxies returns only when every probe has resolved, with each
\* entry of the input in valid if its probe succeeded and in invalid if not,
\* and nothing else in either: |valid| + |invalid| = |input|
ValidatePartition ==
    validate.pc = "returned" =>
        /\ \A k \in DOMAIN probes : probes[k].pc = "exited"
        /\ Len(validate.validProxiesSl) + Len(validate.invalidProxiesSl)
              = Len(validate.proxies)
        /\ \A a \in CandidatePool :
              /\ Count(validate.validProxiesSl, a) =
                    Cardinality({k \in DOMAIN probes :
                        validate.proxies[k] = a /\ probes[k].ok})
              /\ Count(validate.invalidProxiesSl, a) =
                    Cardinality({k \in DOMAIN probes :
                        validate.proxies[k] = a /\ ~probes[k].ok})

\* C8 witness: a call on three candidates has returned with both reachable
\* and unreachable ones
ValidatePartitionWitness ==
    /\ validate.pc = "returned"
    /\ Len(validate.proxies) = 3
    /\ validate.validProxiesSl # <<>>
    /\ validate.invalidProxiesSl # <<>>

\* C8 witness of the empty list: the call returns two empty lists
ValidateEmptyReturns ==
    /\ validate.pc = "returned"
    /\ validate.proxies = <<>>

\* C11: with exec_time zero, the step that sets the cancellation signal is the
\* external interrupt, and the dispatcher's receive from the fired timer
\* leaves the signal unset and the loop at its select, open to admission
ZeroBudgetTimerNoOp ==
    [][~executionTime =>
          /\ (~ctxDone /\ ctxDone') => Interrupt
          /\ (~ctxDone /\ executionTimer = "fired"
                /\ executionTimer' = "drained") =>
                 (~ctxDone' /\ dpc' = "select")]_vars

\* C11 witness: exec_time is zero, the timer has fired and was received (at
\* the select), and afterwards the dispatcher took the admission branch
AdmissionAfterZeroTimer ==
    /\ ~executionTime
    /\ executionTimer = "drained"
    /\ ~ctxDone
    /\ dpc = "admit"

\* C13: with a rate limiter configured, a sender is admitted (slot acquired,
\* sendRequest spawned) only on a limiter wait that ended with permission
AdmissionNeedsPermit ==
    [][(limiter /\ hist'.spawned = hist.spawned + 1) => permit = "ok"]_vars

\* C15: the average of the final report is total_duration / sent_count when
\* the reported sent_count is positive and 0 when it is 0, and no division
\* by zero took place
AverageGuarded ==
    mpc = "exited" =>
        /\ report.avg[2] # 0
        /\ IF report.sent > 0
           THEN report.avg[1] * report.sent = totalDuration * report.avg[2]
           ELSE report.avg[1] = 0

\* C15, the guard alone: the divisor of the average is never zero
NeverDividesByZero == report.avg[2] # 0

\* C16: once the cancellation signal is set, an iteration of the dispatcher
\* loop that starts at the select receives no outcome from respChan (so it
\* spawns no aggregation task) and enters no admission: it returns
StopsServicingAfterCancel ==
    [][(ctxDone /\ dpc = "select") =>
          /\ dpc' \in {"select", "returned"}
          /\ Len(respChan') >= Len(respChan)]_vars

\* C17: before cancellation the occupied slots are the in-flight senders;
\* always in-flight senders <= occupied slots <= max_goroutines, and a sender
\* at its deferred release can proceed
SlotAccounting ==
    /\ ~ctxDone => sem = InFlight
    /\ InFlight <= sem
    /\ sem <= maxGoroutines
    /\ senders.release > 0 => (sem > 0 \/ ReleaseAbandoned)

\* C17 witness: after cancellation a sender has exited without releasing its
\* slot, while another sender is still in flight
ExitedWithoutRelease ==
    /\ ctxDone
    /\ InFlight = 1
    /\ sem = 2

\* C18: under fair scheduling and until the run is cancelled, every outcome
\* placed on respChan is eventually handed to an aggregation task, and the
\* dispatcher eventually performs another admission, with or without limiter
BothBranchesLive ==
    /\ (hist.handed < hist.delivered) ~>
          (hist.handed = hist.delivered \/ ctxDone)
    /\ (hist.spawned < MaxRequests) ~>
          (hist.spawned = MaxRequests \/ ctxDone)

\* C18 witness: an outcome waits in respChan while the dispatcher waits in
\* the admission branch for a slot, with a limiter configured
OutcomeWaitsWhileAdmitting ==
    /\ ~ctxDone
    /\ limiter
    /\ respChan # <<>>
    /\ dpc = "admit"
    /\ sem = maxGoroutines

\* C19: before cancellation there is no state in which the dispatcher waits
\* for a slot or for the limiter with the pool full while every slot-holding
\* sender is blocked on a full respChan
NoDispatchDeadlock ==
    ~ /\ ~ctxDone
      /\ dpc \in {"admit", "limiterWait"}
      /\ ~SemHasRoom
      /\ senders.release = 0
      /\ senders.request > 0
      /\ ~RespChanHasRoom

\* C19 witness: the dispatcher waits for a slot, the pool is full and so is
\* respChan (the sender that filled it is about to release its slot)
PoolAndBufferFull ==
    /\ ~ctxDone
    /\ dpc = "admit"
    /\ sem = maxGoroutines
    /\ Len(respChan) = maxGoroutines

\* C20: for every value of the counter, the wrapped ones included, a call of
\* Next() on a non-empty list of N proxies computes an index in [0, N)
NextIndexInRange ==
    \A c \in Callers :
        callers[c].pc = "index" =>
            IndexOf(callers[c].n, Len(rotator.proxies))
                \in 0..(Len(rotator.proxies) - 1)

\* a reachability probe has dialled its proxy, or a request was admitted
NetworkActivity ==
    \/ \E k \in DOMAIN probes : probes[k].pc \notin {"unborn", "probe"}
    \/ hist.spawned > 0

\* C12: when startup aborts on a fatal configuration error, no proxy probe
\* and no request has been issued
AbortBeforeNetwork == start.pc = "aborted" => ~NetworkActivity

\* every probe of the proxy list has failed
NoneValidated ==
    /\ start.client = "proxied"
    /\ \A k \in DOMAIN probes : ~probes[k].ok

\* C14: when no address of the configured proxy list validates, startup is
\* aborted only by a fatal configuration, the rotator is empty, every outcome
\* carries the dial's error (no request got through on a direct connection)
\* and, once aggregated, is counted in errors
EmptyRotatorFailsRequests ==
    NoneValidated =>
        /\ rotator.proxies = <<>>
        /\ start.pc = "aborted" => start.fatal
        /\ \A i \in DOMAIN respChan : respChan[i].err
        /\ hist.handedErr = hist.handed
        /\ AggsRunning = 0 => errCount = hist.handed

\* C14 witness: three proxies were probed and none validated; the run went
\* on, and two failed requests have been counted as errors
FailedDialsCounted ==
    /\ NoneValidated
    /\ Len(probes) = 3
    /\ ~ctxDone
    /\ errCount = 2
    /\ sentRequestCount = 2

=============================================================================
